---------------------------- MODULE Spec2Model ----------------------------
(***************************************************************************)
(* A model of src/app.py: the Mental Health Analytics dashboard.           *)
(*                                                                         *)
(* The script is re-executed from top to bottom on every user interaction. *)
(* The state is the directory of .csv files, the cache of load_data, the   *)
(* sidebar and chart widgets, and what the last execution produced (the    *)
(* Filtered View, the year slider's bounds, the chart or warning or        *)
(* exception of the view branch).  One action is one interaction followed  *)
(* by the whole re-execution.                                              *)
(*                                                                         *)
(* Text is a sequence of one-character strings.  A number n is held as the *)
(* integer 2*n, so that x.5 is representable and int() truncates.  A cell  *)
(* is [t, v]: t = "num" (v the number in halves), "str" (v the index of    *)
(* the string in sorted order) or "nan" (a missing value, v = 0).          *)
(***************************************************************************)
EXTENDS Integers, Sequences, FiniteSets

\* ------------------------------------------------------------------------
\* Bounds of the model
\* ------------------------------------------------------------------------
\* Rows in a directory of the application specification (all files together).
MaxRows == 2
\* Characters in a raw header of the header-normalisation specification.
MaxHdrLen == 3
\* Rows of the file of the chart specification (one category each).
MaxCats == 9
\* Rows of that file, after the first, whose metric may be missing.
MaxMissing == 3

\* ------------------------------------------------------------------------
\* Characters: str.lower() and the regular expression class \w
\* ------------------------------------------------------------------------
UpperAscii ==
    <<"A","B","C","D","E","F","G","H","I","J","K","L","M",
      "N","O","P","Q","R","S","T","U","V","W","X","Y","Z">>
LowerAscii ==
    <<"a","b","c","d","e","f","g","h","i","j","k","l","m",
      "n","o","p","q","r","s","t","u","v","w","x","y","z">>
Digits == {"0","1","2","3","4","5","6","7","8","9"}
\* A non-ASCII letter pair (LATIN E WITH ACUTE), named by its code points.
UpperEAcute == "U+00C9"
LowerEAcute == "U+00E9"

Range(s) == { s[i] : i \in 1..Len(s) }

\* str.lower() on one character (line 58).
LowerChar(c) ==
    IF \E i \in 1..Len(UpperAscii) : UpperAscii[i] = c
    THEN LowerAscii[CHOOSE i \in 1..Len(UpperAscii) : UpperAscii[i] = c]
    ELSE IF c = UpperEAcute THEN LowerEAcute ELSE c

\* Index.str.lower() on one column name (line 58).
Lower(s) == [ i \in 1..Len(s) |-> LowerChar(s[i]) ]

\* \w of Python's str patterns: Unicode letters and digits, and the underscore.
IsWordChar(c) ==
    \/ c \in Range(UpperAscii) \cup Range(LowerAscii) \cup Digits
    \/ c \in {UpperEAcute, LowerEAcute}
    \/ c = "_"

\* re.sub(r"[^\w]+", "_", s): each maximal run of non-word characters becomes
\* one underscore (line 59).  inRun: the previous character was in a run.
RECURSIVE ReplaceNonWordRuns(_, _)
ReplaceNonWordRuns(s, inRun) ==
    IF s = <<>> THEN <<>>
    ELSE IF IsWordChar(Head(s))
         THEN <<Head(s)>> \o ReplaceNonWordRuns(Tail(s), FALSE)
         ELSE IF inRun
              THEN ReplaceNonWordRuns(Tail(s), TRUE)
              ELSE <<"_">> \o ReplaceNonWordRuns(Tail(s), TRUE)

\* The mutant of NormalizeColumn: runs are replaced character by character.
NormalizeColumnPerChar(s) ==
    [ i \in 1..Len(s) |->
        IF IsWordChar(LowerChar(s[i])) THEN LowerChar(s[i]) ELSE "_" ]

\* df.columns.str.lower().str.replace(r"[^\w]+", "_", regex=True), one name.
NormalizeColumn(s) ==
    ReplaceNonWordRuns(Lower(s), FALSE)

\* ------------------------------------------------------------------------
\* Raw headers of the input files and the column names the script looks for
\* ------------------------------------------------------------------------
HdrEntity  == <<"E","n","t","i","t","y">>
HdrYear    == <<"Y","e","a","r">>
HdrGap     == <<"G","a","p"," ","(","%",")">>
HdrPercent == <<"P","e","r","c","e","n","t">>
HdrScore   == <<"S","c","o","r","e">>

ColSourceFile == <<"s","o","u","r","c","e","_","f","i","l","e">>
ColYear       == <<"y","e","a","r">>
ColEntity     == <<"e","n","t","i","t","y">>
StrGap        == <<"g","a","p">>
StrPercent    == <<"p","e","r","c","e","n","t">>

\* Python's `sub in s` on strings.
Contains(s, sub) ==
    \E i \in 0..(Len(s) - Len(sub)) :
        \A j \in 1..Len(sub) : s[i + j] = sub[j]

\* ------------------------------------------------------------------------
\* Cells
\* ------------------------------------------------------------------------
NaN == [t |-> "nan", v |-> 0]
Num(h) == [t |-> "num", v |-> h]
Str(i) == [t |-> "str", v |-> i]
\* The whole number n in halves.
Whole(n) == n + n


\* ------------------------------------------------------------------------
\* Tables.  A file on disk is [name, header, rows]: name the index of the
\* file's name among the sorted names ("a.csv" = 1, "b.csv" = 2), header the
\* raw column names, rows the parsed cells in header order.  A table in
\* memory is [cols, rows]: cols the column names in order, rows a sequence
\* of functions from column name to cell.
\* ------------------------------------------------------------------------
RECURSIVE Flatten(_)
Flatten(ss) ==
    IF ss = <<>> THEN <<>> ELSE Head(ss) \o Flatten(Tail(ss))

\* The elements of s in order, each kept at its first occurrence only.
RECURSIVE FirstOccurrences(_, _)
FirstOccurrences(s, seen) ==
    IF s = <<>> THEN <<>>
    ELSE IF Head(s) \in seen
         THEN FirstOccurrences(Tail(s), seen)
         ELSE <<Head(s)>> \o FirstOccurrences(Tail(s), seen \cup {Head(s)})

\* df["source_file"] = f.name (line 56): a new last column, or the column of
\* that name overwritten.
WithSourceFile(header) ==
    IF ColSourceFile \in Range(header) THEN header
    ELSE Append(header, ColSourceFile)

\* One frame of load_data's loop (lines 55-61): the file's table with the
\* source_file column set and every column name normalised.
Frame(f) ==
    LET raw  == WithSourceFile(f.header)
        cols == [ i \in 1..Len(raw) |-> NormalizeColumn(raw[i]) ]
        cell(r, i) == IF raw[i] = ColSourceFile THEN Str(f.name)
                      ELSE f.rows[r][i]
    IN  [ cols |-> cols,
          rows |-> [ r \in 1..Len(f.rows) |->
                       [ c \in Range(cols) |->
                           cell(r, CHOOSE i \in 1..Len(cols) : cols[i] = c) ] ] ]

\* pd.concat(frames, ignore_index=True) (line 62): the columns are the union
\* of the frames' columns in order of first appearance, the rows are the
\* frames' rows in order, a column a frame lacks is NaN in its rows.
Concat(frames) ==
    LET cols == FirstOccurrences(
                    Flatten([ k \in 1..Len(frames) |-> frames[k].cols ]), {})
        widen(fr, row) == [ c \in Range(cols) |->
                              IF c \in Range(fr.cols) THEN row[c] ELSE NaN ]
    IN  [ cols |-> cols,
          rows |-> Flatten([ k \in 1..Len(frames) |->
                     [ r \in 1..Len(frames[k].rows) |->
                         widen(frames[k], frames[k].rows[r]) ] ]) ]

\* The mutant of load_data: `frames = [df]` for `frames.append(df)`, so that
\* only the last file read is kept.
load_dataLastFrame(csvs) ==
    Concat(<<Frame(csvs[Len(csvs)])>>)

\* load_data (lines 51-62) on the files in the order glob listed them.
load_data(csvs) ==
    Concat([ k \in 1..Len(csvs) |-> Frame(csvs[k]) ])

\* The orders in which DATA_DIR.glob("*.csv") may list the directory
\* (line 52): the order is the file system's, any permutation.
GlobOrders(files) ==
    { [ k \in 1..Len(files) |-> files[p[k]] ] :
        p \in { q \in [1..Len(files) -> 1..Len(files)] :
                  \A i, j \in 1..Len(files) : q[i] = q[j] => i = j } }

\* np.issubdtype(df[c].dtype, np.number) (line 65): read_csv and concat give
\* a column a numeric dtype when it holds numbers and missing values only.
IsNumericCol(t, c) ==
    \A r \in 1..Len(t.rows) : t.rows[r][c].t \in {"num", "nan"}

\* numeric_cols (line 65), in column order.
NumericCols(t) ==
    SelectSeq(t.cols, LAMBDA c : IsNumericCol(t, c))


\* ------------------------------------------------------------------------
\* The Filter Engine (lines 84-91)
\* ------------------------------------------------------------------------
\* The selector's first option (line 78); a file is selected by its name.
All == 0

\* sorted(df["source_file"].unique()), with "All" in front (line 78).
SourceOptions(t) ==
    {All} \cup { t.rows[r][ColSourceFile].v : r \in 1..Len(t.rows) }

\* Lines 85-86: the rows of the selected file, or every row under "All".
FilterSource(t, src) ==
    IF src # All
    THEN [ t EXCEPT !.rows =
             SelectSeq(t.rows, LAMBDA row : row[ColSourceFile] = Str(src)) ]
    ELSE t

SetMin(S) == CHOOSE x \in S : \A y \in S : x <= y
SetMax(S) == CHOOSE x \in S : \A y \in S : x >= y

\* int(x) of a float held in halves: truncation towards zero.
IntOf(h) ==
    IF h >= 0 THEN h \div 2 ELSE -((-h) \div 2)

\* Line 89: Series.min() and .max() skip missing values and are NaN when no
\* value is left; int(NaN) raises ValueError (ok = FALSE).
YearBounds(t) ==
    LET ys == { t.rows[r][ColYear].v :
                  r \in { q \in 1..Len(t.rows) : t.rows[q][ColYear].t = "num" } }
    IN  IF ys = {}
        THEN [ok |-> FALSE, min |-> 0, max |-> 0]
        ELSE [ok |-> TRUE, min |-> IntOf(SetMin(ys)), max |-> IntOf(SetMax(ys))]

\* The mutant of FilterYear: the first row that matches is lost (an
\* off-by-one slice of the selection).
FilterYearDropFirst(t, lo, hi) ==
    LET sel == SelectSeq(t.rows, LAMBDA row :
                   /\ row[ColYear].t = "num"
                   /\ row[ColYear].v >= Whole(lo)
                   /\ row[ColYear].v <= Whole(hi))
    IN  [ t EXCEPT !.rows = IF sel = <<>> THEN sel ELSE Tail(sel) ]

\* Line 91: the rows whose year lies in [lo, hi]; a comparison with a
\* missing year is False, so such a row is not selected.
FilterYear(t, lo, hi) ==
    [ t EXCEPT !.rows =
        SelectSeq(t.rows, LAMBDA row :
            /\ row[ColYear].t = "num"
            /\ row[ColYear].v >= Whole(lo)
            /\ row[ColYear].v <= Whole(hi)) ]

\* The source and year-range filter with the parameters the widgets hold:
\* the selection of lines 86 and 91 (the year part only with a year column).
FilterEngine(t, src, lo, hi) ==
    LET bySource == FilterSource(t, src)
    IN  IF ColYear \in Range(bySource.cols)
        THEN FilterYear(bySource, lo, hi)
        ELSE bySource


\* ------------------------------------------------------------------------
\* Aggregation: groupby(...)[...].mean(), sort_values, head, nlargest
\* ------------------------------------------------------------------------
\* A mean is [s, n]: the sum (in halves) and the count of the values that
\* are not missing; n = 0 is NaN, the mean of no value.
IsNaNMean(m) == m.n = 0
MeanLeq(a, b) == a.s * b.n <= b.s * a.n

RECURSIVE SetSum(_)
SetSum(S) ==
    IF S = {} THEN 0
    ELSE LET x == CHOOSE y \in S : TRUE IN x[2] + SetSum(S \ {x})

RECURSIVE SortedSeq(_)
SortedSeq(S) ==
    IF S = {} THEN <<>>
    ELSE <<SetMin(S)>> \o SortedSeq(S \ {SetMin(S)})

\* line 116 and line 147.
Category(t) ==
    IF ColEntity \in Range(t.cols) THEN ColEntity ELSE t.cols[1]

\* df_view.groupby(category)[metric].mean(): one mean per distinct value of
\* the category column that is not missing, in the order of the sorted keys;
\* the mean of a group skips the missing values of the metric.
GroupMeans(t, category, metric) ==
    LET present == { r \in 1..Len(t.rows) : t.rows[r][category].t # "nan" }
        keys == SortedSeq({ t.rows[r][category].v : r \in present })
        vals(k) == { <<r, t.rows[r][metric].v>> :
                       r \in { q \in present :
                                 /\ t.rows[q][category].v = k
                                 /\ t.rows[q][metric].t = "num" } }
    IN  [ i \in 1..Len(keys) |->
            [ s |-> SetSum(vals(keys[i])), n |-> Cardinality(vals(keys[i])) ] ]

\* The index of the first mean of ms that no other mean of ms precedes in
\* the order asked for; a NaN is taken only when nothing else is left.
Pick(ms, ascending) ==
    LET idx == 1..Len(ms)
        nums == { i \in idx : ~IsNaNMean(ms[i]) }
        best == { i \in nums : \A j \in nums :
                    IF ascending THEN MeanLeq(ms[i], ms[j])
                                 ELSE MeanLeq(ms[j], ms[i]) }
    IN  IF nums = {} THEN 1 ELSE SetMin(best)

Remove(ms, i) == SubSeq(ms, 1, i - 1) \o SubSeq(ms, i + 1, Len(ms))

\* The mutant of sort_values: the order asked for is ignored (ascending
\* is left at its default).
RECURSIVE sort_valuesAscendingOnly(_, _)
sort_valuesAscendingOnly(ms, ascending) ==
    IF ms = <<>> THEN <<>>
    ELSE LET i == Pick(ms, TRUE)
         IN  <<ms[i]>> \o sort_valuesAscendingOnly(Remove(ms, i), ascending)

\* Series.sort_values(ascending=...): NaN last in either direction
\* (na_position="last"); equal means are kept in key order.
RECURSIVE sort_values(_, _)
sort_values(ms, ascending) ==
    IF ms = <<>> THEN <<>>
    ELSE LET i == Pick(ms, ascending)
         IN  <<ms[i]>> \o sort_values(Remove(ms, i), ascending)

\* Series.head(n).
head(ms, n) ==
    SubSeq(ms, 1, IF n < Len(ms) THEN n ELSE Len(ms))

\* The mutant of nlargest: the n smallest are taken.
nlargestSmallest(ms, n) ==
    head(sort_values(ms, TRUE), n)

\* Series.nlargest(n): the n largest in descending order, NaN after the
\* numbers when there is room.
nlargest(ms, n) ==
    head(sort_values(ms, FALSE), n)


\* ------------------------------------------------------------------------
\* The view branches (lines 108-160)
\* ------------------------------------------------------------------------
Views ==
    {"Data Preview", "Bar Chart", "Trend Over Time", "Treatment Gap Pie",
     "Correlation"}

\* st.slider("Top N", 3, 20, 10) (line 118) and nlargest(8) (line 148).
TopNMin == 3
TopNDefault == 10
PieMax == 8
\* The values of the Top N slider (3 to 20) the model's user picks.
TopNChoices == {TopNMin, TopNDefault}

\* None, the value of a selectbox without options.
NoneCol == <<>>

\* A selectbox over numeric_cols shows its first option until the user
\* picks another (lines 117 and 132).
DefaultMetric(numeric_cols) ==
    IF numeric_cols = <<>> THEN NoneCol ELSE numeric_cols[1]

\* The chart widgets while their branch is not executed: they hold no state
\* and are created anew, with their defaults, when it is.
BarHidden == [shown |-> FALSE, metric |-> NoneCol, top_n |-> TopNDefault, srt |-> TRUE]
TrendHidden == [shown |-> FALSE, tm |-> NoneCol]
SliderHidden == [shown |-> FALSE, min |-> 0, max |-> 0, lo |-> 0, hi |-> 0]

\* What a branch leaves on the page: the kind of outcome, the number of
\* chart or table artifacts, the aggregated series of a chart, and the
\* exception when the run ended in one ("" when it did not).
Outcome(kind, n, series) ==
    [kind |-> kind, artifacts |-> n, series |-> series, exc |-> ""]
Raised(exc) ==
    [kind |-> "error", artifacts |-> 0, series |-> <<>>, exc |-> exc]

\* Lines 108-112.
DataPreview(view_df) ==
    Outcome("table", 1, <<>>)

\* Lines 114-125.  groupby(category)[None] raises KeyError.
BarChart(view_df, w) ==
    IF w.metric = NoneCol THEN Raised("KeyError")
    ELSE Outcome("chart", 1,
            head(sort_values(GroupMeans(view_df, Category(view_df), w.metric),
                             ~w.srt),
                 w.top_n))

\* Lines 127-139.
TrendOverTime(view_df, w) ==
    IF ColYear \notin Range(view_df.cols) THEN Outcome("warning", 0, <<>>)
    ELSE IF w.tm = NoneCol THEN Raised("KeyError")
    ELSE Outcome("chart", 1, GroupMeans(view_df, ColYear, w.tm))

IsGapCol(c) == Contains(c, StrGap) \/ Contains(c, StrPercent)

\* Line 142: the first column whose name contains "gap" or "percent".
GapCol(t) ==
    LET hits == SelectSeq(t.cols, IsGapCol)
    IN  IF hits = <<>> THEN NoneCol ELSE hits[1]

\* Lines 141-152.  The mean of a column of strings raises.
TreatmentGapPie(view_df) ==
    LET gap_col == GapCol(view_df)
    IN  IF gap_col = NoneCol THEN Outcome("warning", 0, <<>>)
        ELSE IF ~IsNumericCol(view_df, gap_col) THEN Raised("TypeError")
        ELSE Outcome("chart", 1,
                nlargest(GroupMeans(view_df, Category(view_df), gap_col), PieMax))

\* Lines 154-160.
Correlation(view_df, numeric_cols) ==
    Outcome("chart", 1, <<>>)

\* The if/elif chain of lines 108-160, up to the plotting call.
Render(vw, view_df, numeric_cols, barW, trendW) ==
    CASE vw = "Data Preview"      -> DataPreview(view_df)
      [] vw = "Bar Chart"         -> BarChart(view_df, barW)
      [] vw = "Trend Over Time"   -> TrendOverTime(view_df, trendW)
      [] vw = "Treatment Gap Pie" -> TreatmentGapPie(view_df)
      [] vw = "Correlation"       -> Correlation(view_df, numeric_cols)

\* What the plotting calls (lines 122, 150, 158) may do with what the branch
\* computed.  The script does not guard them and their library decides on a
\* degenerate input: the bar plot of an empty series, the pie of a series
\* with a NaN, the heat map of the empty matrix of no numeric column.  Any
\* other chart is drawn.  (The year slider is likewise taken as the toolkit
\* documents it, also when yr_min = yr_max.)
PlotOutcomes(vw, drawn, numeric_cols) ==
    IF /\ drawn.kind = "chart"
       /\ \/ vw = "Bar Chart" /\ drawn.series = <<>>
          \/ vw = "Treatment Gap Pie" /\
               \E i \in 1..Len(drawn.series) : IsNaNMean(drawn.series[i])
          \/ vw = "Correlation" /\ numeric_cols = <<>>
    THEN {"chart", "error"}
    ELSE {"chart"}

\* ------------------------------------------------------------------------
\* The state
\* ------------------------------------------------------------------------
VARIABLES
    files,      \* the .csv files of DATA_DIR, in name order
    cache,      \* st.cache_data holds load_data's result
    loads,      \* how many times load_data's body has run
    df,         \* the Unified Table (line 64)
    source,     \* the "Pick Dataset" selectbox (line 78)
    view,       \* the chart radio (line 79)
    slider,     \* the "Year Range" slider: its bounds and its value (line 90)
    bar,        \* the Bar Chart widgets (lines 117-119)
    trend,      \* the "Trend Metric" selectbox (line 132)
    df_view,    \* the Filtered View (lines 84-91)
    filter_ok,  \* lines 84-91 ran without an exception
    outcome     \* what the view branch left on the page

vars ==
    <<files, cache, loads, df, source, view, slider, bar, trend, df_view,
      filter_ok, outcome>>

EmptyTable == [cols |-> <<>>, rows |-> <<>>]

\* ------------------------------------------------------------------------
\* The directories the specifications start from.  Every file has a header
\* and at least one data row, and the names of a file's columns stay
\* distinct after normalisation.
\* ------------------------------------------------------------------------
\* The value of the chart family's metric in row i (a whole number).
ChartVal(i) == ((i + i) % 5) + 1

\* The cells a family offers for the column `hdr` of row i.  A file's first
\* row is complete.  "app": one entity per row, the year 1, 2 or 2.5, or
\* missing after the first row.  "chart": one category per row, its metric
\* ChartVal(i), or missing in the MaxMissing rows after the first.
Cells(hdr, i, family) ==
    CASE hdr = HdrEntity -> {Str(i)}
      [] hdr = HdrYear ->
           {Num(Whole(1)), Num(Whole(2)), Num(Whole(2) + 1)}
           \cup (IF i > 1 THEN {NaN} ELSE {})
      [] hdr = HdrPercent -> {Num(Whole(1))}
      [] hdr \in {HdrGap, HdrScore} ->
           IF family = "app" THEN {Num(Whole(3))}
           ELSE {Num(Whole(ChartVal(i)))}
                \cup (IF i > 1 /\ i <= MaxMissing + 1 THEN {NaN} ELSE {})
      [] OTHER -> {Str(i)}

RECURSIVE RowChoices(_, _, _)
RowChoices(schema, i, family) ==
    IF schema = <<>> THEN {<<>>}
    ELSE { <<c>> \o rest : c \in Cells(Head(schema), i, family),
                           rest \in RowChoices(Tail(schema), i, family) }

RECURSIVE RowSeqs(_, _, _)
RowSeqs(schema, n, family) ==
    IF n = 0 THEN {<<>>}
    ELSE { Append(rs, r) : rs \in RowSeqs(schema, n - 1, family),
                           r \in RowChoices(schema, n, family) }

FilesOf(name, schemas, sizes, family) ==
    UNION { { [name |-> name, header |-> sc, rows |-> rs] :
                rs \in UNION { RowSeqs(sc, n, family) : n \in sizes } } :
            sc \in schemas }

\* The application's directories: a.csv alone, or a.csv and a b.csv that is
\* not the longer of the two, with at most MaxRows rows together.
AppSchemas == { <<HdrEntity, HdrYear>>, <<HdrEntity, HdrGap>>, <<HdrEntity>> }
AppDirs ==
    { <<a>> : a \in FilesOf(1, AppSchemas, 1..MaxRows, "app") }
    \cup
    { d \in { <<a, b>> : a \in FilesOf(1, AppSchemas, 1..(MaxRows - 1), "app"),
                          b \in FilesOf(2, AppSchemas, 1..(MaxRows \div 2), "app") } :
        /\ Len(d[2].rows) <= Len(d[1].rows)
        /\ Len(d[1].rows) + Len(d[2].rows) <= MaxRows }

\* The chart family: one file of up to MaxCats categories, and optionally a
\* second row of the first category.
ChartSchemas ==
    { <<HdrEntity, HdrGap>>, <<HdrEntity, HdrPercent, HdrGap>>,
      <<HdrEntity, HdrScore>>, <<HdrGap>> }
SecondRow(schema) ==
    [ j \in 1..Len(schema) |->
        CASE schema[j] = HdrEntity -> Str(1)
          [] schema[j] = HdrPercent -> Num(Whole(1))
          [] OTHER -> Num(Whole(ChartVal(1)) + 1) ]
ChartDirs ==
    { <<f>> : f \in FilesOf(1, ChartSchemas, 1..MaxCats, "chart") }
    \cup
    { <<[f EXCEPT !.rows = Append(f.rows, SecondRow(f.header))]>> :
        f \in FilesOf(1, ChartSchemas, 1..MaxCats, "chart") }

\* The header family: one file with one column of text under any raw header
\* of up to MaxHdrLen characters.
HeaderChars == {"A", "b", "1", "_", " ", "%", UpperEAcute}
RawHeaders == UNION { [1..n -> HeaderChars] : n \in 1..MaxHdrLen }
HeaderDirs ==
    { <<[name |-> 1, header |-> <<h>>, rows |-> << <<Str(1)>> >>]>> :
        h \in RawHeaders }

InitWith(dirs) ==
    /\ files \in dirs
    /\ cache = FALSE
    /\ loads = 0
    /\ df = EmptyTable
    /\ source = All
    /\ view = "Data Preview"
    /\ slider = SliderHidden
    /\ bar = BarHidden
    /\ trend = TrendHidden
    /\ df_view = EmptyTable
    /\ filter_ok = TRUE
    /\ outcome = Outcome("none", 0, <<>>)

Init == InitWith(AppDirs)
InitCharts == InitWith(ChartDirs)
InitColumns == InitWith(HeaderDirs)


\* ------------------------------------------------------------------------
\* One execution of the script (lines 48-172)
\* ------------------------------------------------------------------------
\* The mutant of CacheHit: load_data without @st.cache_data.
CacheNever(cached) ==
    FALSE

\* @st.cache_data (line 50): the body of load_data runs only while nothing
\* is cached; later calls return a copy of the cached table.
CacheHit(cached) ==
    cached

\* The script run with the widgets holding src, vw, sliderW, barW and
\* trendW.  A widget the run does not reach loses its state; the slider is
\* a new widget, at its default (yr_min, yr_max), whenever its bounds differ
\* from those it was created with.
Execute(src, vw, sliderW, barW, trendW) ==
    \E csvs \in (IF CacheHit(cache) THEN {<<>>} ELSE GlobOrders(files)) :
      LET table == IF CacheHit(cache) THEN df ELSE load_data(csvs)
          numeric_cols == NumericCols(table)
          bySource == FilterSource(table, src)
          hasYear == ColYear \in Range(bySource.cols)
          bounds == IF hasYear THEN YearBounds(bySource)
                    ELSE [ok |-> TRUE, min |-> 0, max |-> 0]
          sl == IF ~hasYear \/ ~bounds.ok THEN SliderHidden
                ELSE IF /\ sliderW.shown
                        /\ sliderW.min = bounds.min
                        /\ sliderW.max = bounds.max
                     THEN sliderW
                     ELSE [shown |-> TRUE, min |-> bounds.min, max |-> bounds.max,
                           lo |-> bounds.min, hi |-> bounds.max]
          view_df == IF bounds.ok THEN FilterEngine(table, src, sl.lo, sl.hi)
                     ELSE bySource
          barNow == IF bounds.ok /\ vw = "Bar Chart"
                    THEN IF barW.shown THEN barW
                         ELSE [BarHidden EXCEPT !.shown = TRUE,
                                 !.metric = DefaultMetric(numeric_cols)]
                    ELSE BarHidden
          trendNow == IF bounds.ok /\ vw = "Trend Over Time" /\ hasYear
                      THEN IF trendW.shown THEN trendW
                           ELSE [shown |-> TRUE, tm |-> DefaultMetric(numeric_cols)]
                      ELSE TrendHidden
          drawn == IF bounds.ok
                   THEN Render(vw, view_df, numeric_cols, barNow, trendNow)
                   ELSE Raised("ValueError")
      IN  \E lib \in PlotOutcomes(vw, drawn, numeric_cols) :
            /\ cache' = TRUE
            /\ loads' = IF CacheHit(cache) THEN loads ELSE loads + 1
            /\ df' = table
            /\ source' = src
            /\ view' = vw
            /\ slider' = sl
            /\ bar' = barNow
            /\ trend' = trendNow
            /\ df_view' = view_df
            /\ filter_ok' = bounds.ok
            /\ outcome' = IF lib = "error" THEN Raised("library") ELSE drawn
            /\ UNCHANGED files

\* ------------------------------------------------------------------------
\* The interactions
\* ------------------------------------------------------------------------
\* A browser session opens the page: every widget is at its default.
OpenSession ==
    Execute(All, "Data Preview", SliderHidden, BarHidden, TrendHidden)

\* The user picks another dataset.
SelectSource ==
    /\ cache
    /\ \E src \in SourceOptions(df) \ {source} :
         Execute(src, view, slider, bar, trend)

\* The user picks another chart.
SelectView ==
    /\ cache
    /\ \E vw \in Views \ {view} :
         Execute(source, vw, slider, bar, trend)

\* The user moves a handle of the year slider.
SetYearRange ==
    /\ cache
    /\ slider.shown
    /\ \E lo, hi \in slider.min..slider.max :
         /\ lo <= hi
         /\ <<lo, hi>> # <<slider.lo, slider.hi>>
         /\ Execute(source, view, [slider EXCEPT !.lo = lo, !.hi = hi], bar, trend)

\* The user picks another metric of the Bar Chart.
SetMetric ==
    /\ cache
    /\ bar.shown
    /\ \E m \in Range(NumericCols(df)) \ {bar.metric} :
         Execute(source, view, slider, [bar EXCEPT !.metric = m], trend)

\* The user moves the Top N slider.
SetTopN ==
    /\ cache
    /\ bar.shown
    /\ \E n \in TopNChoices \ {bar.top_n} :
         Execute(source, view, slider, [bar EXCEPT !.top_n = n], trend)

\* The user flips the order of the Bar Chart.
SetOrder ==
    /\ cache
    /\ bar.shown
    /\ Execute(source, view, slider, [bar EXCEPT !.srt = ~bar.srt], trend)

\* The user picks another metric of the trend line.
SetTrendMetric ==
    /\ cache
    /\ trend.shown
    /\ \E m \in Range(NumericCols(df)) \ {trend.tm} :
         Execute(source, view, slider, bar, [trend EXCEPT !.tm = m])

Next ==
    \/ OpenSession
    \/ SelectSource
    \/ SelectView
    \/ SetYearRange
    \/ SetMetric
    \/ SetTopN
    \/ SetOrder
    \/ SetTrendMetric

NextCharts ==
    \/ OpenSession
    \/ SelectView
    \/ SetMetric
    \/ SetTopN
    \/ SetOrder

NextColumns ==
    \/ OpenSession
    \/ SelectSource
    \/ SelectView

\* The application on the directories of AppDirs.
Spec == Init /\ [][Next]_vars
\* The charts on the one-file directories of ChartDirs.
SpecCharts == InitCharts /\ [][NextCharts]_vars
\* The loader on the one-column files of HeaderDirs.
SpecColumns == InitColumns /\ [][NextColumns]_vars


\* ------------------------------------------------------------------------
\* Notions the claims are stated in
\* ------------------------------------------------------------------------
RECURSIVE SumLen(_)
SumLen(fs) ==
    IF fs = <<>> THEN 0 ELSE Len(Head(fs).rows) + SumLen(Tail(fs))

RowsFrom(t, name) ==
    SelectSeq(t.rows, LAMBDA row : row[ColSourceFile] = Str(name))

\* The year slider is at the full span it offers (or there is none).
FullSpan ==
    slider.shown => (slider.lo = slider.min /\ slider.hi = slider.max)

AsciiLowerDigitUnderscore == Range(LowerAscii) \cup Digits \cup {"_"}
IsAscii(c) == c \notin {UpperEAcute, LowerEAcute}
DoubleUnderscore(s) ==
    \E i \in 1..(Len(s) - 1) : s[i] = "_" /\ s[i + 1] = "_"
\* s has an underscore next to an underscore or to a non-word character.
UnderscoreNextToSeparator(s) ==
    \E i \in 1..(Len(s) - 1) :
        \/ s[i] = "_" /\ (s[i + 1] = "_" \/ ~IsWordChar(s[i + 1]))
        \/ s[i + 1] = "_" /\ ~IsWordChar(s[i])
\* The raw header the i-th column of the one-file table came from.
RawOf(i) == WithSourceFile(files[1].header)[i]

\* The distinct values of column c of t that are not missing (nunique).
Distinct(t, c) ==
    { t.rows[r][c] : r \in { q \in 1..Len(t.rows) : t.rows[q][c].t # "nan" } }

SmallerOf(a, b) == IF a < b THEN a ELSE b

\* a >= b and a <= b on means as floats compare: False when either is NaN.
FloatGeq(a, b) == ~IsNaNMean(a) /\ ~IsNaNMean(b) /\ MeanLeq(b, a)
FloatLeq(a, b) == ~IsNaNMean(a) /\ ~IsNaNMean(b) /\ MeanLeq(a, b)

\* The means of ms that are numbers come first and are in the order asked
\* for; the NaN means follow them.
OrderedNaNLast(ms, highestFirst) ==
    \A i, j \in 1..Len(ms) :
        i < j =>
            /\ IsNaNMean(ms[i]) => IsNaNMean(ms[j])
            /\ (~IsNaNMean(ms[i]) /\ ~IsNaNMean(ms[j])) =>
                 IF highestFirst THEN MeanLeq(ms[j], ms[i])
                                 ELSE MeanLeq(ms[i], ms[j])

\* The first column of t whose name contains "gap" or "percent", if any.
HasGapColumn(t) == \E i \in 1..Len(t.cols) : IsGapCol(t.cols[i])
FirstGapColumn(t) ==
    t.cols[SetMin({ i \in 1..Len(t.cols) : IsGapCol(t.cols[i]) })]

\* ms holds the n largest means of all: its i-th mean has fewer than i
\* numbers of `all` above it and at least i at or above it, and a NaN stands
\* only where `all` has fewer than i numbers.
LargestOf(ms, all) ==
    \A i \in 1..Len(ms) :
        LET nums == { j \in 1..Len(all) : ~IsNaNMean(all[j]) }
        IN  IF IsNaNMean(ms[i])
            THEN Cardinality(nums) < i
            ELSE /\ Cardinality({ j \in nums : ~MeanLeq(all[j], ms[i]) }) < i
                 /\ Cardinality({ j \in nums : MeanLeq(ms[i], all[j]) }) >= i

\* ------------------------------------------------------------------------
\* C1.  The Unified Table has as many rows as the input files together, and
\* the rows that carry a file's name in source_file are that file's rows, in
\* order and cell by cell.
\* ------------------------------------------------------------------------
C1_RowCountIsSum ==
    cache =>
        /\ Len(df.rows) = SumLen(files)
        /\ \A k \in 1..Len(files) :
             LET f == files[k]
                 mine == RowsFrom(df, f.name)
             IN  /\ Len(mine) = Len(f.rows)
                 /\ \A r \in 1..Len(mine) : \A j \in 1..Len(f.header) :
                      mine[r][NormalizeColumn(f.header[j])] = f.rows[r][j]

\* Two files have been loaded into one table.
C1_Witness ==
    /\ cache
    /\ Len(files) = 2
    /\ Len(df.rows) = Len(files[1].rows) + Len(files[2].rows)
    /\ Len(files[1].rows) = MaxRows - 1

\* ------------------------------------------------------------------------
\* C2 as stated.  Every column name of the Unified Table has only characters
\* of [a-z0-9_] and no two consecutive underscores, whatever the raw header.
\* ------------------------------------------------------------------------
C2_Original ==
    cache =>
        \A i \in 1..Len(df.cols) :
            /\ Range(df.cols[i]) \subseteq AsciiLowerDigitUnderscore
            /\ ~DoubleUnderscore(df.cols[i])

\* C2 as amended.  Every column name of the Unified Table has no ASCII
\* upper-case letter and no non-word character, and only characters of
\* [a-z0-9_] when the raw header is ASCII; two consecutive underscores occur
\* only where the lower-cased header has an underscore next to an underscore
\* or to a non-word character.
C2_Amended ==
    cache =>
        \A i \in 1..Len(df.cols) :
            LET col == df.cols[i]
            IN  /\ Range(col) \cap Range(UpperAscii) = {}
                /\ \A c \in Range(col) : IsWordChar(c)
                /\ (\A c \in Range(RawOf(i)) : IsAscii(c)) =>
                     Range(col) \subseteq AsciiLowerDigitUnderscore
                /\ DoubleUnderscore(col) =>
                     UnderscoreNextToSeparator(Lower(RawOf(i)))

\* A header with a run of two non-word characters has been normalised: the
\* run became one underscore.
C2_Witness ==
    /\ cache
    /\ files[1].header[1] = <<"A", " ", "%">>
    /\ df.cols[1] = <<"a", "_">>

\* ------------------------------------------------------------------------
\* C3 as stated.  The Filtered View is a subset of the Unified Table's rows
\* with the same columns, and under "All" at the slider's full span it has
\* every row of the Unified Table.
\* ------------------------------------------------------------------------
C3_Original ==
    (cache /\ filter_ok) =>
        /\ df_view.cols = df.cols
        /\ Range(df_view.rows) \subseteq Range(df.rows)
        /\ Len(df_view.rows) <= Len(df.rows)
        /\ (source = All /\ FullSpan) => Len(df_view.rows) = Len(df.rows)

\* ------------------------------------------------------------------------
\* C4 as stated.  With one file selected and the slider at its full span,
\* the Filtered View is exactly that file's rows, and the slider's bounds are
\* the least and the greatest year of that file's rows.
\* ------------------------------------------------------------------------
C4_Original ==
    (cache /\ filter_ok /\ source # All /\ slider.shown /\ FullSpan) =>
        LET mine == RowsFrom(df, source)
            years == { mine[r][ColYear].v :
                         r \in { q \in 1..Len(mine) : mine[q][ColYear].t = "num" } }
        IN  /\ df_view.rows = mine
            /\ Whole(slider.min) = SetMin(years)
            /\ Whole(slider.max) = SetMax(years)


\* ------------------------------------------------------------------------
\* C5 as stated.  The Bar Chart's series has min(N, distinct categories)
\* values, each at least the next under "Highest First" and at most the next
\* under "Lowest First".
\* ------------------------------------------------------------------------
C5_Original ==
    (view = "Bar Chart" /\ outcome.kind = "chart") =>
        LET ms == outcome.series
        IN  /\ Len(ms) = SmallerOf(bar.top_n,
                           Cardinality(Distinct(df_view, Category(df_view))))
            /\ \A i \in 1..(Len(ms) - 1) :
                 IF bar.srt THEN FloatGeq(ms[i], ms[i + 1])
                            ELSE FloatLeq(ms[i], ms[i + 1])

\* C5 as amended.  The Bar Chart's series has min(N, distinct categories)
\* values; those that are numbers are non-increasing under "Highest First"
\* and non-decreasing under "Lowest First", and the means that are NaN (no
\* value of the metric in the category) come after them in either order.
C5_Amended ==
    (view = "Bar Chart" /\ outcome.kind = "chart") =>
        /\ Len(outcome.series) =
             SmallerOf(bar.top_n, Cardinality(Distinct(df_view, Category(df_view))))
        /\ OrderedNaNLast(outcome.series, bar.srt)

\* A Bar Chart cut to Top N = 3 of more categories, highest first, with
\* means that differ.
C5_Witness ==
    /\ view = "Bar Chart"
    /\ outcome.kind = "chart"
    /\ bar.srt
    /\ bar.top_n = TopNMin
    /\ Cardinality(Distinct(df_view, Category(df_view))) > TopNMin
    /\ Len(outcome.series) = TopNMin
    /\ ~MeanLeq(outcome.series[1], outcome.series[TopNMin])

\* ------------------------------------------------------------------------
\* C6.  The pie's series has at most 8 values, the 8 largest per-category
\* means of the first column whose name contains "gap" or "percent" (all of
\* them when there are fewer); without such a column the branch leaves a
\* warning, no chart and no series.
\* ------------------------------------------------------------------------
C6_PieSeries ==
    (view = "Treatment Gap Pie" /\ cache /\ filter_ok) =>
        IF HasGapColumn(df_view)
        THEN LET all == GroupMeans(df_view, Category(df_view),
                                   FirstGapColumn(df_view))
             IN  /\ outcome.kind = "chart" \/ outcome.exc = "library"
                 /\ outcome.kind = "chart" =>
                      /\ outcome.artifacts = 1
                      /\ Len(outcome.series) <= PieMax
                      /\ Len(outcome.series) = SmallerOf(PieMax, Len(all))
                      /\ LargestOf(outcome.series, all)
        ELSE /\ outcome.kind = "warning"
             /\ outcome.artifacts = 0
             /\ outcome.series = <<>>

\* A pie of more than 8 categories: 8 means are kept and they differ.
C6_Witness ==
    /\ view = "Treatment Gap Pie"
    /\ outcome.kind = "chart"
    /\ Cardinality(Distinct(df_view, Category(df_view))) > PieMax
    /\ Len(outcome.series) = PieMax
    /\ ~MeanLeq(outcome.series[1], outcome.series[PieMax])

\* ------------------------------------------------------------------------
\* C7 as stated.  No view branch fails: it leaves its artifact or a warning,
\* and where the column it needs does not exist (no year column for the
\* trend, no numeric column for the Bar Chart or the trend metric, no gap or
\* percent column for the pie) it leaves a warning and no artifact.  What
\* a plotting library does with a degenerate chart is not held against the
\* claim.
\* ------------------------------------------------------------------------
C7_Original ==
    (cache /\ filter_ok /\ outcome.exc # "library") =>
        /\ outcome.kind \in {"table", "chart", "warning"}
        /\ outcome.kind = "warning" => outcome.artifacts = 0
        /\ outcome.kind \in {"table", "chart"} => outcome.artifacts = 1
        /\ (view = "Trend Over Time" /\ ColYear \notin Range(df_view.cols)) =>
             outcome.kind = "warning"
        /\ (view \in {"Bar Chart", "Trend Over Time"} /\ NumericCols(df) = <<>>) =>
             outcome.kind = "warning"
        /\ (view = "Treatment Gap Pie" /\ ~HasGapColumn(df_view)) =>
             outcome.kind = "warning"

\* ------------------------------------------------------------------------
\* C8.  The source and year-range filter, applied with the same selector
\* and the same year range to the Filtered View it produced, yields that
\* Filtered View again.
\* ------------------------------------------------------------------------
C8_FilterIdempotent ==
    (cache /\ filter_ok) =>
        FilterEngine(df_view, source, slider.lo, slider.hi) = df_view

\* One file is selected and the year range is narrowed: the Filtered View
\* is a proper, non-empty part of the Unified Table.
C8_Witness ==
    /\ cache
    /\ filter_ok
    /\ source # All
    /\ slider.shown
    /\ slider.lo > slider.min
    /\ df_view.rows # <<>>
    /\ Len(df_view.rows) < Len(RowsFrom(df, source))

\* ------------------------------------------------------------------------
\* C9.  load_data's body runs at most once, and once the Unified Table is
\* cached no interaction (selector, year range, view, chart parameter, a new
\* session) changes it or reads the disk again.
\* ------------------------------------------------------------------------
C9_LoadedOnce ==
    [][ /\ loads' <= 1
        /\ cache => (df' = df /\ loads' = loads /\ cache') ]_vars

\* After the load the user has picked a file, narrowed the year range and
\* changed a parameter of the Bar Chart.
C9_Witness ==
    /\ cache
    /\ loads = 1
    /\ source # All
    /\ slider.shown
    /\ slider.hi < slider.max
    /\ view = "Bar Chart"
    /\ bar.top_n # TopNDefault
    /\ Len(df_view.rows) < Len(df.rows)

\* ------------------------------------------------------------------------
\* C10 as stated.  With a year column in the Unified Table, every selector
\* value gives integer slider bounds yr_min <= yr_max and a Filtered View,
\* without an exception.
\* ------------------------------------------------------------------------
C10_Original ==
    (cache /\ ColYear \in Range(df.cols)) =>
        /\ filter_ok
        /\ slider.shown
        /\ slider.min <= slider.max

=============================================================================
